---- MODULE Spec2Model ----
(***************************************************************************)
(* Fleet scheduler of src/main.py: the fleet and mission registries, the   *)
(* recomputation pass (metrics refresh + greedy per-type assignment with   *)
(* synthetic ferry legs) and the JSON API handlers that mutate them.       *)
(*                                                                         *)
(* Time is counted in thousandths of an hour (1000 = one hour) from the    *)
(* first timestamp of the input table; durations computed from floats are  *)
(* truncated to that resolution (Python's timedelta rounds to 1e-6 s).     *)
(***************************************************************************)
EXTENDS Integers, Sequences, FiniteSets, TLC

VARIABLES FLEET, SCHEDULE_ENTRIES, AUTO_SEGMENTS, SCHEDULE_ERRORS,
          ENTRY_ID_COUNTER, AUTO_ID_COUNTER, fresh, rerun,
          threaded, pc, pending, observed, call, previous_errors

vars == <<FLEET, SCHEDULE_ENTRIES, AUTO_SEGMENTS, SCHEDULE_ERRORS,
          ENTRY_ID_COUNTER, AUTO_ID_COUNTER, fresh, rerun,
          threaded, pc, pending, observed, call, previous_errors>>

---------------------------------------------------------------------------
(* Bounds of the model *)

\* missions that may be created (values ENTRY_ID_COUNTER may hand out)
MaxEntries == 2
\* AutoSegment ids that may be handed out before requests stop being served
MaxAutoIds == 2
\* missions and aircraft of the registries a single pass is run over
MaxPassEntries == 4
MaxPassFleet == 2
\* the longest distance (nm) compute_flight_stats is called with on its own
MaxStatsDistance == 800
\* missions posted before the registry is edited
MaxEditEntries == 3
\* missions of the registries whose departures lie close to an arrival
MaxBufferEntries == 3

---------------------------------------------------------------------------
(* Program constants *)

None == "None"
\* arrival_time = None, as an integer outside the range of timestamps
NoTime == -1
\* datetime.min, below every timestamp
DATETIME_MIN == -1000000
GROUND_BUFFER == 1000
ENTRY_ID_START == 1
AUTO_ID_START == 1000

\* _AIRCRAFT_INFO: key -> label, speed, seats (two of the eleven types)
AIRCRAFT_TYPES ==
    <<[key |-> "citation_mustang", label |-> "Cessna Citation Mustang", speed |-> 340, seats |-> 4],
      [key |-> "citation_cj", label |-> "Cessna Citation CJ", speed |-> 377, seats |-> 5]>>

TypeKeys == {AIRCRAFT_TYPES[i].key : i \in 1..Len(AIRCRAFT_TYPES)}

\* get_aircraft_info: the record of a known key (callers test KnownType first)
get_aircraft_info(key) ==
    CHOOSE t \in {AIRCRAFT_TYPES[i] : i \in 1..Len(AIRCRAFT_TYPES)} : t.key = key

KnownType(key) == key \in TypeKeys

PIC_DEFAULT == "LUB"

\* airports_coordinates: the airports the lookup table knows
airports_coordinates == {"LDZA", "EGLL", "EGKK"}

\* great-circle distance in nautical miles between two known airports, for a
\* table that puts EGKK 68 nm from EGLL: a ferry between them takes a whole
\* number of minutes (24)
_distance_between(code_one, code_two) ==
    CASE code_one = code_two -> 0
      [] {code_one, code_two} = {"EGLL", "EGKK"} -> 68
      [] {code_one, code_two} = {"LDZA", "EGKK"} -> 725
      [] OTHER -> 740

---------------------------------------------------------------------------
(* Input normalisation *)

\* str.upper() on the inputs of the model
Upper(s) ==
    CASE s = "r1" -> "R1"
      [] s = "ldza" -> "LDZA"
      [] OTHER -> s

\* str.strip() on the inputs of the model
Strip(s) ==
    CASE s = " R2 " -> "R2"
      [] s = " " -> ""
      [] OTHER -> s

\* datetime.strptime(value, "%Y-%m-%dT%H:%M"): ok = FALSE is ValueError
_parse_datetime_local(value) ==
    CASE value = "2025-01-01T00:00" -> [ok |-> TRUE, t |-> 0]
      [] value = "2025-01-01T04:00" -> [ok |-> TRUE, t |-> 4000]
      [] value = "2025-01-01T04:36" -> [ok |-> TRUE, t |-> 4600]
      [] value = "2025-01-01T05:00" -> [ok |-> TRUE, t |-> 5000]
      [] value = "2025-01-01T08:00" -> [ok |-> TRUE, t |-> 8000]
      [] value = "2025-01-01T14:36" -> [ok |-> TRUE, t |-> 14600]
      [] value = "2025-01-01T16:00" -> [ok |-> TRUE, t |-> 16000]
      [] OTHER -> [ok |-> FALSE, t |-> NoTime]

---------------------------------------------------------------------------
(* Pure helpers *)

\* lines 118-120: hours and minutes of a total kept in thousandths of an hour
flight_stats(total_hours) ==
    [total_hours |-> total_hours,
     hours |-> total_hours \div 1000,
     minutes |-> ((total_hours - (total_hours \div 1000) * 1000) * 60) \div 1000]

\* line 115 with >= for >: a base time of exactly 0.4 h gets the long padding
buffer_from_threshold(distance_nm, speed_kts) ==
    IF 10 * distance_nm >= 4 * speed_kts THEN 333 ELSE 200

\* line 115: buffer = 0.333 if base_time > 0.4 else 0.20. base_time > 0.4 is
\* decided exactly (10 d > 4 s)
buffer(distance_nm, speed_kts) ==
    IF 10 * distance_nm > 4 * speed_kts THEN 333 ELSE 200

\* compute_flight_stats: the total is kept in thousandths of an hour
compute_flight_stats(distance_nm, speed_kts) ==
    flight_stats((1000 * distance_nm) \div speed_kts + buffer(distance_nm, speed_kts))

\* _mission_required_pax: N for "N pax", 0 for anything else
_mission_required_pax(mission_type) ==
    CASE mission_type = "2 pax" -> 2
      [] mission_type = "5 pax" -> 5
      [] mission_type = "many pax" -> 0
      [] OTHER -> 0

Max(a, b) == IF a >= b THEN a ELSE b

Range(s) == {s[i] : i \in 1..Len(s)}

---------------------------------------------------------------------------
(* Records *)

\* dataclass FleetAircraft
FleetAircraft(registration, type_key, max_pax) ==
    [registration |-> registration, type_key |-> type_key, max_pax |-> max_pax]

\* dataclass ScheduleEntry with its defaults; flight_time_text "" is <<>>,
\* "<h>h <m>m" is <<h, m>>; sic, ca1 and notes are carried like pic and are
\* left out
ScheduleEntry(entry_id, departure_airport, arrival_airport, departure_time, aircraft_type, mission_type, pic, requested_registration) ==
    [entry_id |-> entry_id,
     departure_airport |-> departure_airport,
     arrival_airport |-> arrival_airport,
     departure_time |-> departure_time,
     aircraft_type |-> aircraft_type,
     mission_type |-> mission_type,
     pic |-> pic,
     requested_registration |-> requested_registration,
     assigned_registration |-> None,
     arrival_time |-> NoTime,
     flight_time_hours |-> 0,
     flight_time_text |-> <<>>,
     auto_generated |-> FALSE]

\* dataclass AircraftState with its defaults
AircraftState(registration, type_key, max_pax) ==
    [registration |-> registration, type_key |-> type_key, max_pax |-> max_pax,
     available_from |-> DATETIME_MIN, location |-> None, accumulated_ferry |-> 0]

\* One diagnostic string: its wording (kind) and the values formatted into it
Err(kind, reg, type, pax, airport, time) ==
    [kind |-> kind, reg |-> reg, type |-> type, pax |-> pax,
     airport |-> airport, time |-> time]

ErrUnknownAirport == Err("UnknownAirport", "", "", 0, "", 0)
ErrUnsupportedType == Err("UnsupportedType", "", "", 0, "", 0)
ErrNoAircraftOfType(info) == Err("NoAircraftOfType", "", info.label, 0, "", 0)
ErrRequestedUnavailable(reg, info) == Err("RequestedUnavailable", reg, info.label, 0, "", 0)
ErrInsufficientSeats(reg, pax) == Err("InsufficientSeats", reg, "", pax, "", 0)
ErrNoCapacity(pax, info) == Err("NoCapacity", "", info.label, pax, "", 0)
ErrNoFeasible(entry) ==
    Err("NoFeasible", "", "", 0, entry.departure_airport, entry.departure_time)

---------------------------------------------------------------------------
(* Metrics refresh *)

\* lines 317-319: the derived fields of an entry from its flight stats
with_metrics(entry, stats) ==
    [entry EXCEPT !.flight_time_hours = stats.total_hours,
                  !.flight_time_text = <<stats.hours, stats.minutes>>,
                  !.arrival_time = entry.departure_time + stats.total_hours]

\* _refresh_entry_metrics: raised = TRUE is the ValueError, the entry untouched
_refresh_entry_metrics(entry) ==
    IF entry.departure_airport \notin airports_coordinates
         \/ entry.arrival_airport \notin airports_coordinates
    THEN [raised |-> TRUE, exc |-> ErrUnknownAirport, entry |-> entry]
    ELSE IF ~KnownType(entry.aircraft_type)
    THEN [raised |-> TRUE, exc |-> ErrUnsupportedType, entry |-> entry]
    ELSE [raised |-> FALSE, exc |-> ErrUnknownAirport,
          entry |-> with_metrics(entry,
              compute_flight_stats(
                  _distance_between(entry.departure_airport, entry.arrival_airport),
                  get_aircraft_info(entry.aircraft_type).speed))]

---------------------------------------------------------------------------
(* Assignment *)

\* _build_aircraft_states, every aircraft of the fleet whatever its type
_build_aircraft_states_any_type(fleet, type_key) ==
    [i \in 1..Len(fleet) |->
        AircraftState(fleet[i].registration, fleet[i].type_key, fleet[i].max_pax)]

\* _build_aircraft_states: one fresh state per fleet aircraft of the type, in
\* the fleet's insertion order
_build_aircraft_states(fleet, type_key) ==
    LET relevant == SelectSeq(fleet, LAMBDA aircraft : aircraft.type_key = type_key)
    IN [i \in 1..Len(relevant) |->
          AircraftState(relevant[i].registration, relevant[i].type_key,
                        relevant[i].max_pax)]

NoWindow == [feasible |-> FALSE, start |-> NoTime, end |-> NoTime, hours |-> 0]

Window(start, end, hours) ==
    [feasible |-> TRUE, start |-> start, end |-> end, hours |-> hours]

\* lines 355-357: the ferry leg starts at reposition_start
reposition_from(reposition_start, reposition_duration) ==
    Window(reposition_start, reposition_start + reposition_duration,
           reposition_duration)

\* lines 352-357 with reposition_start = state.available_from: the ferry
\* leaves as soon as the aircraft is free
reposition_at_once(state, latest_finish, reposition_duration) ==
    IF state.available_from + reposition_duration > latest_finish
    THEN NoWindow
    ELSE reposition_from(state.available_from, reposition_duration)

\* lines 352-357: the window of a candidate that has to be repositioned
reposition_window(state, latest_finish, reposition_duration) ==
    IF state.available_from + reposition_duration > latest_finish
    THEN NoWindow
    ELSE reposition_from(Max(state.available_from,
                             latest_finish - reposition_duration),
                         reposition_duration)

\* lines 345-346 returning a positive cost for an aircraft that is in place
ready_window_with_cost(ready_time) == Window(ready_time, ready_time, 200)

\* lines 345-346: the candidate already stands at the departure airport
ready_window(ready_time) == Window(ready_time, ready_time, 0)

\* lines 337-357 of _evaluate_candidate, latest_finish computed
candidate_window(state, entry, info, latest_finish) ==
    IF state.location = None
    THEN IF state.available_from > latest_finish
         THEN NoWindow
         ELSE Window(state.available_from, state.available_from, 0)
    ELSE IF state.location = entry.departure_airport
    THEN IF state.available_from > latest_finish
         THEN NoWindow
         ELSE ready_window(Max(state.available_from, latest_finish))
    ELSE reposition_window(state, latest_finish,
            compute_flight_stats(
                _distance_between(state.location, entry.departure_airport),
                info.speed).total_hours)

\* _evaluate_candidate: NoWindow is the None result
_evaluate_candidate(state, entry, info) ==
    candidate_window(state, entry, info, entry.departure_time - GROUND_BUFFER)

\* lines 386-397: the candidates of a mission that requests a registration;
\* requested holds the aircraft state of that registration if the pool has it
requested_candidate(requested, entry, info, required_pax) ==
    IF requested = <<>>
    THEN [skip |-> TRUE, cands |-> <<>>,
          err |-> ErrRequestedUnavailable(entry.requested_registration, info)]
    ELSE IF requested[1].max_pax < required_pax
    THEN [skip |-> TRUE, cands |-> <<>>,
          err |-> ErrInsufficientSeats(entry.requested_registration, required_pax)]
    ELSE [skip |-> FALSE, cands |-> requested, err |-> ErrUnknownAirport]

\* lines 399-404: the candidates of a mission that requests none
seated_candidates(cands, info, required_pax) ==
    IF cands = <<>>
    THEN [skip |-> TRUE, cands |-> <<>>, err |-> ErrNoCapacity(required_pax, info)]
    ELSE [skip |-> FALSE, cands |-> cands, err |-> ErrUnknownAirport]

\* lines 385-397 left out: a requested registration is not looked at
candidates_any_registration(aircraft_states, entry, info, required_pax) ==
    seated_candidates(
        SelectSeq(aircraft_states, LAMBDA state : state.max_pax >= required_pax),
        info, required_pax)

\* lines 385-404, required_pax computed
candidates_for(aircraft_states, entry, info, required_pax) ==
    IF entry.requested_registration # None /\ entry.requested_registration # ""
    THEN requested_candidate(
             SelectSeq(aircraft_states,
                 LAMBDA state : state.registration = entry.requested_registration),
             entry, info, required_pax)
    ELSE seated_candidates(
             SelectSeq(aircraft_states, LAMBDA state : state.max_pax >= required_pax),
             info, required_pax)

\* lines 382-404: the candidates of one mission, or the diagnostic that skips it
candidate_states(aircraft_states, entry, info) ==
    candidates_for(aircraft_states, entry, info,
                   _mission_required_pax(entry.mission_type))

NoChoice == [chosen |-> FALSE, state |-> AircraftState("", "", 0),
             window |-> NoWindow, metric |-> 0]

\* lines 415-418 with the comparison of line 415 left out: the first feasible
\* candidate is kept
consider_first_feasible(best, state, window) ==
    IF ~window.feasible \/ best.chosen
    THEN best
    ELSE [chosen |-> TRUE, state |-> state, window |-> window,
          metric |-> state.accumulated_ferry + window.hours]

\* lines 414-418 with metric = window[2]: the ferry hours the candidate has
\* already accumulated are not counted
consider_cost_only(best, state, window) ==
    IF ~window.feasible
    THEN best
    ELSE IF ~best.chosen \/ window.hours < best.metric
    THEN [chosen |-> TRUE, state |-> state, window |-> window, metric |-> window.hours]
    ELSE best

\* lines 411-418: the best candidate so far after looking at one more
consider_candidate(best, state, window) ==
    IF ~window.feasible
    THEN best
    ELSE IF ~best.chosen \/ state.accumulated_ferry + window.hours < best.metric
    THEN [chosen |-> TRUE, state |-> state, window |-> window,
          metric |-> state.accumulated_ferry + window.hours]
    ELSE best

\* lines 410-418: the loop over the candidates, from candidate k on
RECURSIVE choose_candidate(_, _, _, _, _)
choose_candidate(cands, k, entry, info, best) ==
    IF k > Len(cands)
    THEN best
    ELSE choose_candidate(cands, k + 1, entry, info,
            consider_candidate(best, cands[k],
                               _evaluate_candidate(cands[k], entry, info)))

\* lines 429-448: the ferry leg of a commitment
auto_entry(auto_id, chosen_state, entry, window) ==
    [ScheduleEntry(auto_id, chosen_state.location, entry.departure_airport,
                   window.start, entry.aircraft_type, "Auto Ferry", "-",
                   chosen_state.registration)
       EXCEPT !.assigned_registration = chosen_state.registration,
              !.auto_generated = TRUE,
              !.arrival_time = window.end,
              !.flight_time_hours = window.hours,
              !.flight_time_text = <<window.hours \div 1000,
                                     ((window.hours % 1000) * 60) \div 1000>>]

\* lines 451-454 with available_from = entry.arrival_time: no ground buffer
\* after the mission
commit_state_no_buffer(state, entry, window) ==
    [state EXCEPT !.location = entry.arrival_airport,
                  !.available_from = entry.arrival_time,
                  !.accumulated_ferry = state.accumulated_ferry + window.hours]

\* lines 451-454: the chosen aircraft's state after the commitment
commit_state(state, entry, window) ==
    [state EXCEPT !.location = entry.arrival_airport,
                  !.available_from = entry.arrival_time + GROUND_BUFFER,
                  !.accumulated_ferry = state.accumulated_ferry + window.hours]

\* `continue` after a diagnostic, as `break`: the type's later missions are dropped
break_after_skip(rest) == <<>>

\* `continue` after a diagnostic (lines 391, 396, 404, 424): the loop goes on
\* with the type's remaining missions
continue_after_skip(rest) == rest

\* assigned_registration of the stored entry with this id
SetAssigned(entries, entry_id, registration) ==
    [i \in 1..Len(entries) |->
        IF entries[i].entry_id = entry_id
        THEN [entries[i] EXCEPT !.assigned_registration = registration]
        ELSE entries[i]]

\* one iteration of the loop of line 381 as the log keeps it: the mission, the
\* aircraft states when its turn came, chosen_state and chosen_window (lines
\* 406-418) when the iteration reached line 420, and the aircraft states the
\* iteration left
Iteration(acc, entry, best, after) ==
    [entry |-> entry, states |-> acc.aircraft_states, chosen |-> best.chosen,
     state |-> best.state, window |-> best.window, after |-> after]

\* the iteration that took acc to next, logged
logged(acc, entry, best, next) ==
    [next EXCEPT !.log = Append(@, Iteration(acc, entry, best, next.aircraft_states))]

\* lines 420-454: the mission is skipped when no candidate is feasible,
\* committed to the chosen aircraft otherwise
commit_choice(acc, entry, best) ==
    IF ~best.chosen
    THEN [skipped |-> TRUE,
          acc |-> logged(acc, entry, best,
                         [acc EXCEPT !.errors = Append(@, ErrNoFeasible(entry))])]
    ELSE [skipped |-> FALSE,
          acc |-> logged(acc, entry, best, [acc EXCEPT
             !.auto_segments =
                 IF best.window.hours > 0
                 THEN Append(@, auto_entry(acc.auto_id, best.state, entry, best.window))
                 ELSE @,
             !.auto_id = IF best.window.hours > 0 THEN @ + 1 ELSE @,
             !.entries = SetAssigned(@, entry.entry_id, best.state.registration),
             !.aircraft_states =
                 [i \in 1..Len(@) |->
                     IF @[i].registration = best.state.registration
                     THEN commit_state(@[i], entry, best.window)
                     ELSE @[i]]])]

\* lines 385-454, the candidates known
assign_among(acc, entry, info, cs) ==
    IF cs.skip
    THEN [skipped |-> TRUE,
          acc |-> logged(acc, entry, NoChoice, [acc EXCEPT !.errors = Append(@, cs.err)])]
    ELSE commit_choice(acc, entry, choose_candidate(cs.cands, 1, entry, info, NoChoice))

\* lines 382-454: one iteration of the loop over a type's missions. acc holds
\* the entries, SCHEDULE_ERRORS, auto_segments, the id counter, the aircraft
\* states of the type, and a log of the iterations made so far
assign_entry(acc, entry, info) ==
    assign_among(acc, entry, info, candidate_states(acc.aircraft_states, entry, info))

RECURSIVE assign_entries(_, _, _)

\* the loop of line 381 after one iteration: r is what the iteration left
next_entries(r, rest, info) ==
    assign_entries(r.acc, IF r.skipped THEN continue_after_skip(rest) ELSE rest, info)

\* line 381: the loop over the sorted missions of one type
assign_entries(acc, entries, info) ==
    IF entries = <<>>
    THEN acc
    ELSE next_entries(assign_entry(acc, Head(entries), info), Tail(entries), info)

\* s with e put in after its first k entries
insert_at(s, e, k) == SubSeq(s, 1, k) \o <<e>> \o SubSeq(s, k + 1, Len(s))

\* e put in before the entries that depart at its time: sorted() not stable
insert_before_equal(s, e) ==
    insert_at(s, e, Cardinality({i \in 1..Len(s) :
                                    s[i].departure_time < e.departure_time}))

\* e put into a list sorted by departure_time, after the entries that depart
\* no later
insert_sorted(s, e) ==
    insert_at(s, e, Cardinality({i \in 1..Len(s) :
                                    s[i].departure_time <= e.departure_time}))

\* sorted(entries, key=departure_time): stable, equal keys keep their order
RECURSIVE sorted_by_departure(_)
sorted_by_departure(entries) ==
    IF entries = <<>>
    THEN <<>>
    ELSE insert_sorted(sorted_by_departure(SubSeq(entries, 1, Len(entries) - 1)),
                       entries[Len(entries)])

\* setdefault(entry.aircraft_type, []): a key is added when it is first met
add_type_key(before, type_key) ==
    IF type_key \in Range(before) THEN before ELSE Append(before, type_key)

\* lines 365-367: the keys of entries_by_type in order of first appearance
RECURSIVE type_keys_in_order(_)
type_keys_in_order(entries) ==
    IF entries = <<>>
    THEN <<>>
    ELSE add_type_key(type_keys_in_order(SubSeq(entries, 1, Len(entries) - 1)),
                      entries[Len(entries)].aircraft_type)

\* lines 375-379 left out: an empty pool is passed over in silence
no_aircraft_silent(errors, info) == errors

\* lines 375-379: an empty pool records the diagnostic and skips the type
no_aircraft_errors(errors, info) == Append(errors, ErrNoAircraftOfType(info))

\* lines 374-454, the pool of the type built
assign_pool(acc, aircraft_states, type_key, info) ==
    IF aircraft_states = <<>>
    THEN [acc EXCEPT !.errors = no_aircraft_errors(@, info)]
    ELSE assign_entries([acc EXCEPT !.aircraft_states = aircraft_states],
            sorted_by_departure(
                SelectSeq(acc.entries, LAMBDA e : e.aircraft_type = type_key)),
            info)

\* lines 369-454: the body of the loop over the types
assign_type(acc, fleet, type_key) ==
    IF ~KnownType(type_key)
    THEN acc
    ELSE assign_pool(acc, _build_aircraft_states(fleet, type_key), type_key,
                     get_aircraft_info(type_key))

RECURSIVE assign_types(_, _, _)
assign_types(acc, fleet, type_keys) ==
    IF type_keys = <<>>
    THEN acc
    ELSE assign_types(assign_type(acc, fleet, Head(type_keys)), fleet, Tail(type_keys))

\* lines 362-363: every entry unassigned
unassigned(entries) ==
    [i \in 1..Len(entries) |-> [entries[i] EXCEPT !.assigned_registration = None]]

\* lines 365-456, the entries unassigned
assign_all(fleet, cleared, errors, auto_id) ==
    assign_types([entries |-> cleared, errors |-> errors, auto_segments |-> <<>>,
                  auto_id |-> auto_id, aircraft_states |-> <<>>, log |-> <<>>],
                 fleet, type_keys_in_order(cleared))

\* _optimise_assignments over the registries; errors is SCHEDULE_ERRORS at the
\* call, auto_id the next value of AUTO_ID_COUNTER
_optimise_assignments(fleet, entries, errors, auto_id) ==
    assign_all(fleet, unassigned(entries), errors, auto_id)

---------------------------------------------------------------------------
(* The recomputation pass *)

\* line 462 with the reset left out: the diagnostics of earlier passes stay
errors_kept(errors) == errors

\* line 462: SCHEDULE_ERRORS = []
errors_reset(errors) == <<>>

\* lines 469-470 left out: the pass goes on to assign after a refresh error
never_aborts(errors) == FALSE

\* lines 469-470: the pass stops before assigning when a refresh failed
pass_aborts(errors) == errors # <<>>

\* lines 463-468, every entry's refresh done: the entries, and the ValueErrors
\* appended in the entries' order
collect_refresh(r, errors) ==
    [entries |-> [i \in 1..Len(r) |-> r[i].entry],
     errors |-> errors \o [i \in 1..Len(SelectSeq(r, LAMBDA x : x.raised)) |->
                              SelectSeq(r, LAMBDA x : x.raised)[i].exc]]

\* lines 463-468: every entry unassigned and refreshed, the ValueErrors collected
refresh_entries(entries, errors) ==
    collect_refresh([i \in 1..Len(entries) |->
                        _refresh_entry_metrics(
                            [entries[i] EXCEPT !.assigned_registration = None])],
                    errors)

\* what a pass leaves: the entries, SCHEDULE_ERRORS, AUTO_SEGMENTS and the
\* next value of AUTO_ID_COUNTER
pass_result(entries, errors, auto_segments, auto_id) ==
    [entries |-> entries, errors |-> errors, auto_segments |-> auto_segments,
     auto_id |-> auto_id]

\* line 471: AUTO_SEGMENTS = _optimise_assignments()
assigned_result(o) == pass_result(o.entries, o.errors, o.auto_segments, o.auto_id)

\* lines 469-471
after_refresh(fleet, refreshed, auto_id) ==
    IF pass_aborts(refreshed.errors)
    THEN pass_result(refreshed.entries, refreshed.errors, <<>>, auto_id)
    ELSE assigned_result(_optimise_assignments(fleet, refreshed.entries,
                                               refreshed.errors, auto_id))

\* recalculate_schedule: the registries and the four globals it leaves
recalculate_schedule(fleet, entries, errors, auto_id) ==
    after_refresh(fleet, refresh_entries(entries, errors_reset(errors)), auto_id)

---------------------------------------------------------------------------
(* Requests *)

\* a key the JSON payload does not hold
Absent == "<absent>"

\* POST /api/aircraft bodies: accepted ones, and one for each 400
AircraftPayloads ==
    {[registration |-> "r1", type_key |-> "citation_mustang", max_pax |-> 4],
     [registration |-> " R2 ", type_key |-> "citation_mustang", max_pax |-> 1],
     [registration |-> "R2", type_key |-> "citation_cj", max_pax |-> 4],
     [registration |-> " ", type_key |-> "citation_mustang", max_pax |-> 4],
     [registration |-> "R1", type_key |-> "zeppelin", max_pax |-> 4],
     [registration |-> "R2", type_key |-> "citation_mustang", max_pax |-> 0]}

\* DELETE /api/aircraft/<registration> paths
RegistrationPaths == {"r1", "R2"}

Mission(d, t, k, m, r) ==
    [departure_airport |-> d, arrival_airport |-> "EGLL", departure_time |-> t,
     aircraft_type |-> k, mission_type |-> m, pic |-> Absent,
     requested_registration |-> r]

\* complete mission forms, as the page sends them on create and on edit
MissionForms ==
    {Mission("ldza", "2025-01-01T00:00", "citation_mustang", "Tech", " "),
     Mission("LDZA", "2025-01-01T08:00", "citation_mustang", "Tech", " "),
     Mission("EGLL", "2025-01-01T08:00", "citation_mustang", "Tech", " "),
     Mission("LDZA", "2025-01-01T00:00", "citation_mustang", "2 pax", " "),
     Mission("LDZA", "2025-01-01T00:00", "citation_mustang", "2 pax", " R2 "),
     Mission("LDZA", "2025-01-01T00:00", "citation_cj", "Tech", " "),
     Mission("LDZA", "2025-01-01T00:00", "zeppelin", "Tech", " "),
     Mission("XXXX", "2025-01-01T00:00", "citation_mustang", "Tech", " ")}

\* POST /api/schedule bodies: the forms, an unparsable timestamp, a missing field
CreatePayloads ==
    MissionForms
    \cup {Mission("LDZA", "bad", "citation_mustang", "Tech", Absent),
          Mission("LDZA", "2025-01-01T00:00", "citation_mustang", Absent, Absent)}

EmptyPayload ==
    [departure_airport |-> Absent, arrival_airport |-> Absent, departure_time |-> Absent,
     aircraft_type |-> Absent, mission_type |-> Absent, pic |-> Absent,
     requested_registration |-> Absent]

\* PUT /api/schedule/<id> bodies: the forms, no field at all, one field, and
\* airports followed by an unparsable timestamp
UpdatePayloads ==
    MissionForms
    \cup {EmptyPayload,
          [EmptyPayload EXCEPT !.requested_registration = " "],
          [EmptyPayload EXCEPT !.departure_airport = "LDZA", !.arrival_airport = "EGLL",
                               !.departure_time = "bad"]}

EntryIds == ENTRY_ID_START..(ENTRY_ID_START + MaxEntries)

\* the registry's entry with this id (callers test HasEntry first)
HasEntry(entries, entry_id) == \E i \in 1..Len(entries) : entries[i].entry_id = entry_id

HasAircraft(fleet, registration) ==
    \E i \in 1..Len(fleet) : fleet[i].registration = registration

\* the user-set fields of the stored missions
UserFields(entries) ==
    [i \in 1..Len(entries) |->
        [entry_id |-> entries[i].entry_id,
         departure_airport |-> entries[i].departure_airport,
         arrival_airport |-> entries[i].arrival_airport,
         departure_time |-> entries[i].departure_time,
         aircraft_type |-> entries[i].aircraft_type,
         mission_type |-> entries[i].mission_type,
         pic |-> entries[i].pic,
         requested_registration |-> entries[i].requested_registration]]

\* fresh: the derived fields, AUTO_SEGMENTS and SCHEDULE_ERRORS are the output of
\* a pass over the registries as they are now (no user field changed since).
\* rerun: the last pass ran over registries unchanged since the pass before it.

\* threaded: the server runs each request on its own thread (app.run(),
\* line 640); FALSE is the one-request-at-a-time service.
\* pc: where the request that is being served stands in recalculate_schedule.
\* pending: the list _optimise_assignments has returned and line 471 has not
\* yet stored. observed: what a GET /api/state has read.

\* a pass may start while AutoSegment ids are left
PassAllowed == AUTO_ID_COUNTER < AUTO_ID_START + MaxAutoIds

\* no request is being served (and the reader of the model has not yet read)
Idle == pc = "idle" /\ ~observed.taken

\* a pass run to its end stores its result in the globals
store_pass(r) ==
    /\ SCHEDULE_ENTRIES' = r.entries
    /\ AUTO_SEGMENTS' = r.auto_segments
    /\ SCHEDULE_ERRORS' = r.errors
    /\ AUTO_ID_COUNTER' = r.auto_id
    /\ fresh' = TRUE
    /\ UNCHANGED <<pc, pending>>

\* the handler calls recalculate_schedule() over these registries: run to its
\* end when requests are served one at a time, entered when they are threaded
call_recalculate(fleet, entries) ==
    /\ PassAllowed
    /\ FLEET' = fleet
    /\ rerun' = (fresh /\ fleet = FLEET
                   /\ UserFields(entries) = UserFields(SCHEDULE_ENTRIES))
    /\ previous_errors' = SCHEDULE_ERRORS
    /\ IF threaded
       THEN /\ SCHEDULE_ENTRIES' = entries
            /\ pc' = "start"
            /\ fresh' = FALSE
            /\ UNCHANGED <<AUTO_SEGMENTS, SCHEDULE_ERRORS, AUTO_ID_COUNTER, pending>>
       ELSE store_pass(recalculate_schedule(fleet, entries, SCHEDULE_ERRORS,
                                            AUTO_ID_COUNTER))

\* the handler returns without touching the registries
NoChange ==
    UNCHANGED <<FLEET, SCHEDULE_ENTRIES, AUTO_SEGMENTS, SCHEDULE_ERRORS,
                AUTO_ID_COUNTER, fresh, rerun, pc, pending, previous_errors>>

\* api_add_aircraft answers 400
add_aircraft_rejects(payload) ==
    LET registration == Upper(Strip(payload.registration))
    IN \/ registration = ""
       \/ HasAircraft(FLEET, registration)
       \/ ~KnownType(payload.type_key)
       \/ payload.max_pax <= 0

api_add_aircraft(payload) ==
    /\ Idle
    /\ IF add_aircraft_rejects(payload)
       THEN NoChange
       ELSE call_recalculate(
                Append(FLEET, FleetAircraft(Upper(Strip(payload.registration)),
                                            payload.type_key, payload.max_pax)),
                SCHEDULE_ENTRIES)
    /\ UNCHANGED <<ENTRY_ID_COUNTER, threaded, observed, call>>

\* the fleet after `del FLEET[registration]`
fleet_without(fleet, registration) ==
    SelectSeq(fleet, LAMBDA a : a.registration # registration)

api_remove_aircraft(path) ==
    /\ Idle
    /\ IF HasAircraft(FLEET, Upper(path))
       THEN call_recalculate(fleet_without(FLEET, Upper(path)), SCHEDULE_ENTRIES)
       ELSE NoChange
    /\ UNCHANGED <<ENTRY_ID_COUNTER, threaded, observed, call>>

\* `x or None` on a stripped, upper-cased registration
registration_or_none(raw) ==
    LET requested == Upper(Strip(raw))
    IN IF requested = "" THEN None ELSE requested

\* lines 587-599: the entry of a payload that holds every required key
created_entry(payload, counter, parsed) ==
    IF ~parsed.ok
    THEN [raised |-> TRUE, next_id |-> counter + 1, entry |-> <<>>]
    ELSE [raised |-> FALSE, next_id |-> counter + 1,
          entry |-> ScheduleEntry(counter,
              Upper(payload.departure_airport),
              Upper(payload.arrival_airport),
              parsed.t,
              payload.aircraft_type,
              payload.mission_type,
              IF payload.pic = Absent THEN PIC_DEFAULT ELSE payload.pic,
              IF payload.requested_registration = Absent
              THEN None
              ELSE registration_or_none(payload.requested_registration))]

\* _create_schedule_entry: raised = TRUE is the ValueError; next_id is
\* ENTRY_ID_COUNTER after the call (entry_id=next(...) is evaluated before the
\* timestamp is parsed)
_create_schedule_entry(payload, counter) ==
    IF \/ payload.departure_airport = Absent
       \/ payload.arrival_airport = Absent
       \/ payload.departure_time = Absent
       \/ payload.aircraft_type = Absent
       \/ payload.mission_type = Absent
    THEN [raised |-> TRUE, next_id |-> counter, entry |-> <<>>]
    ELSE created_entry(payload, counter,
                       _parse_datetime_local(payload.departure_time))

\* lines 560-563: the airports of the payload assigned
update_airports(entry, payload) ==
    [entry EXCEPT
       !.departure_airport = IF payload.departure_airport # Absent
                             THEN Upper(payload.departure_airport) ELSE @,
       !.arrival_airport = IF payload.arrival_airport # Absent
                           THEN Upper(payload.arrival_airport) ELSE @]

\* lines 564-578: the fields assigned after the timestamp has been parsed
update_rest(entry, payload, parsed) ==
    [entry EXCEPT
       !.departure_time = IF payload.departure_time # Absent THEN parsed.t ELSE @,
       !.aircraft_type = IF payload.aircraft_type # Absent
                         THEN payload.aircraft_type ELSE @,
       !.mission_type = IF payload.mission_type # Absent
                        THEN payload.mission_type ELSE @,
       !.pic = IF payload.pic # Absent THEN payload.pic ELSE @,
       !.requested_registration =
           IF payload.requested_registration # Absent
           THEN registration_or_none(payload.requested_registration) ELSE @]

\* lines 564-578, the airports assigned: the timestamp is parsed next
update_from_time(entry, payload, parsed) ==
    IF payload.departure_time # Absent /\ ~parsed.ok
    THEN [raised |-> TRUE, entry |-> entry]
    ELSE [raised |-> FALSE, entry |-> update_rest(entry, payload, parsed)]

\* _update_entry_from_payload: the fields are assigned in the order of the
\* source; raised = TRUE is the ValueError of the timestamp, with the fields
\* assigned before it already changed
_update_entry_from_payload(entry, payload) ==
    update_from_time(update_airports(entry, payload), payload,
                     _parse_datetime_local(payload.departure_time))

\* the stored entries with the entry of this id replaced
ReplaceEntry(entries, entry) ==
    [i \in 1..Len(entries) |->
        IF entries[i].entry_id = entry.entry_id THEN entry ELSE entries[i]]

EntryOf(entries, entry_id) ==
    entries[CHOOSE i \in 1..Len(entries) : entries[i].entry_id = entry_id]

\* lines 606-612 of api_add_schedule, c being what _create_schedule_entry did
add_created(c) ==
    /\ ENTRY_ID_COUNTER' = c.next_id
    /\ IF c.raised
       THEN NoChange
       ELSE call_recalculate(FLEET, Append(SCHEDULE_ENTRIES, c.entry))

api_add_schedule(payload) ==
    /\ Idle
    /\ ENTRY_ID_COUNTER < ENTRY_ID_START + MaxEntries
    /\ add_created(_create_schedule_entry(payload, ENTRY_ID_COUNTER))
    /\ UNCHANGED <<threaded, observed, call>>

\* lines 622-628 of api_update_schedule, u being what
\* _update_entry_from_payload did to the stored entry
store_updated(u) ==
    IF u.raised
    THEN /\ SCHEDULE_ENTRIES' = ReplaceEntry(SCHEDULE_ENTRIES, u.entry)
         /\ fresh' = (fresh /\ SCHEDULE_ENTRIES' = SCHEDULE_ENTRIES)
         /\ UNCHANGED <<FLEET, AUTO_SEGMENTS, SCHEDULE_ERRORS,
                        AUTO_ID_COUNTER, rerun, pc, pending, previous_errors>>
    ELSE call_recalculate(FLEET, ReplaceEntry(SCHEDULE_ENTRIES, u.entry))

api_update_schedule(entry_id, payload) ==
    /\ Idle
    /\ IF ~HasEntry(SCHEDULE_ENTRIES, entry_id)
       THEN NoChange
       ELSE store_updated(_update_entry_from_payload(
                              EntryOf(SCHEDULE_ENTRIES, entry_id), payload))
    /\ UNCHANGED <<ENTRY_ID_COUNTER, threaded, observed, call>>

api_delete_schedule(entry_id) ==
    /\ Idle
    /\ IF HasEntry(SCHEDULE_ENTRIES, entry_id)
       THEN call_recalculate(FLEET, SelectSeq(SCHEDULE_ENTRIES, LAMBDA e : e.entry_id # entry_id))
       ELSE NoChange
    /\ UNCHANGED <<ENTRY_ID_COUNTER, threaded, observed, call>>

---------------------------------------------------------------------------
(* The sequential service: one request at a time, each run to completion *)

NoSnapshot == [taken |-> FALSE]

\* call: the arguments and the result of a function called on its own, outside
\* a request; NoCall while none is
NoCall == [done |-> FALSE]

\* previous_errors: SCHEDULE_ERRORS as it was when the last pass was called,
\* that is, the diagnostics the pass before it had left

Registries ==
    /\ FLEET = <<>>
    /\ SCHEDULE_ENTRIES = <<>>
    /\ AUTO_SEGMENTS = <<>>
    /\ SCHEDULE_ERRORS = <<>>
    /\ ENTRY_ID_COUNTER = ENTRY_ID_START
    /\ AUTO_ID_COUNTER = AUTO_ID_START
    /\ fresh = TRUE
    /\ rerun = FALSE
    /\ pc = "idle"
    /\ pending = <<>>
    /\ observed = NoSnapshot
    /\ call = NoCall
    /\ previous_errors = <<>>

Init == Registries /\ threaded = FALSE

Next ==
    \/ \E payload \in AircraftPayloads : api_add_aircraft(payload)
    \/ \E path \in RegistrationPaths : api_remove_aircraft(path)
    \/ \E payload \in CreatePayloads : api_add_schedule(payload)
    \/ \E entry_id \in EntryIds, payload \in UpdatePayloads :
          api_update_schedule(entry_id, payload)
    \/ \E entry_id \in EntryIds : api_delete_schedule(entry_id)

Spec == Init /\ [][Next]_vars

---------------------------------------------------------------------------
(* The threaded service: a request's pass runs in steps, and a GET /api/state
   served by another thread may read between any two of them *)

\* lines 461-462
PassClear ==
    /\ pc = "start"
    /\ ~observed.taken
    /\ AUTO_SEGMENTS' = <<>>
    /\ SCHEDULE_ERRORS' = errors_reset(SCHEDULE_ERRORS)
    /\ pc' = "refresh"
    /\ UNCHANGED <<FLEET, SCHEDULE_ENTRIES, ENTRY_ID_COUNTER, AUTO_ID_COUNTER, fresh,
                   rerun, threaded, pending, observed, call, previous_errors>>

\* lines 463-470, r being the refreshed entries and the errors collected
store_refreshed(r) ==
    /\ SCHEDULE_ENTRIES' = r.entries
    /\ SCHEDULE_ERRORS' = r.errors
    /\ pc' = IF pass_aborts(r.errors) THEN "idle" ELSE "optimise"
    /\ fresh' = pass_aborts(r.errors)

\* lines 463-470
PassRefresh ==
    /\ pc = "refresh"
    /\ ~observed.taken
    /\ store_refreshed(refresh_entries(SCHEDULE_ENTRIES, SCHEDULE_ERRORS))
    /\ UNCHANGED <<FLEET, AUTO_SEGMENTS, ENTRY_ID_COUNTER, AUTO_ID_COUNTER, rerun,
                   threaded, pending, observed, call, previous_errors>>

\* what _optimise_assignments has written when it returns; the list it returns
\* is not yet stored
store_optimised(o) ==
    /\ SCHEDULE_ENTRIES' = o.entries
    /\ SCHEDULE_ERRORS' = o.errors
    /\ AUTO_ID_COUNTER' = o.auto_id
    /\ pending' = o.auto_segments

\* line 471, the call
PassOptimise ==
    /\ pc = "optimise"
    /\ ~observed.taken
    /\ store_optimised(_optimise_assignments(FLEET, SCHEDULE_ENTRIES,
                                             SCHEDULE_ERRORS, AUTO_ID_COUNTER))
    /\ pc' = "publish"
    /\ UNCHANGED <<FLEET, AUTO_SEGMENTS, ENTRY_ID_COUNTER, fresh, rerun, threaded,
                   observed, call, previous_errors>>

\* line 471, the assignment
PassPublish ==
    /\ pc = "publish"
    /\ ~observed.taken
    /\ AUTO_SEGMENTS' = pending
    /\ pending' = <<>>
    /\ pc' = "idle"
    /\ fresh' = TRUE
    /\ UNCHANGED <<FLEET, SCHEDULE_ENTRIES, SCHEDULE_ERRORS, ENTRY_ID_COUNTER,
                   AUTO_ID_COUNTER, rerun, threaded, observed, call,
                   previous_errors>>

\* api_state on another thread: build_state_payload reads the four globals
api_state ==
    /\ ~observed.taken
    /\ observed' = [taken |-> TRUE, during |-> pc, fleet |-> FLEET,
                    entries |-> SCHEDULE_ENTRIES, auto_segments |-> AUTO_SEGMENTS,
                    errors |-> SCHEDULE_ERRORS]
    /\ UNCHANGED <<FLEET, SCHEDULE_ENTRIES, AUTO_SEGMENTS, SCHEDULE_ERRORS,
                   ENTRY_ID_COUNTER, AUTO_ID_COUNTER, fresh, rerun, threaded, pc,
                   pending, call, previous_errors>>

InitThreaded == Registries /\ threaded = TRUE

NextThreaded ==
    \/ \E payload \in AircraftPayloads : api_add_aircraft(payload)
    \/ \E path \in RegistrationPaths : api_remove_aircraft(path)
    \/ \E payload \in CreatePayloads : api_add_schedule(payload)
    \/ \E entry_id \in EntryIds, payload \in UpdatePayloads :
          api_update_schedule(entry_id, payload)
    \/ \E entry_id \in EntryIds : api_delete_schedule(entry_id)
    \/ PassClear
    \/ PassRefresh
    \/ PassOptimise
    \/ PassPublish
    \/ api_state

SpecThreaded == InitThreaded /\ [][NextThreaded]_vars

---------------------------------------------------------------------------
(* One pass over a drawn fleet and registry: the state is the one a
   POST /api/schedule has reached when it calls recalculate_schedule(), after
   the aircraft were added and the earlier missions posted one by one *)

\* aircraft as api_add_aircraft stores them (line 545)
PassAircraft ==
    {FleetAircraft("R1", "citation_mustang", 4),
     FleetAircraft("R2", "citation_mustang", 4),
     FleetAircraft("R2", "citation_mustang", 1),
     FleetAircraft("R3", "citation_cj", 4)}

\* the fleets of at most MaxPassFleet aircraft, in every insertion order
PassFleets ==
    {fleet \in UNION {[1..n -> PassAircraft] : n \in 0..MaxPassFleet} :
        \A i \in 1..Len(fleet), j \in 1..Len(fleet) :
            i # j => fleet[i].registration # fleet[j].registration}

\* a mission form with its arrival airport
PassMission(d, a, t, k, m, r) == [Mission(d, t, k, m, r) EXCEPT !.arrival_airport = a]

\* POST /api/schedule bodies of the drawn registries
PassForms ==
    {PassMission("LDZA", "EGLL", "2025-01-01T00:00", "citation_mustang", "Tech", "R1"),
     PassMission("LDZA", "EGLL", "2025-01-01T08:00", "citation_mustang", "Tech", "R1"),
     PassMission("LDZA", "EGKK", "2025-01-01T00:00", "citation_mustang", "2 pax", "R2"),
     PassMission("EGLL", "LDZA", "2025-01-01T16:00", "citation_mustang", "Tech", " "),
     PassMission("LDZA", "EGLL", "2025-01-01T00:00", "citation_mustang", "Tech", " "),
     PassMission("LDZA", "EGLL", "2025-01-01T08:00", "citation_cj", "Tech", "R1"),
     PassMission("LDZA", "EGLL", "2025-01-01T00:00", "citation_cj", "Tech", " "),
     PassMission("LDZA", "EGLL", "2025-01-01T14:36", "citation_mustang", "Tech", " "),
     PassMission("XXXX", "EGLL", "2025-01-01T00:00", "citation_mustang", "Tech", " ")}

\* the bodies posted, in order: at least the one whose pass is run
PassRegistries == UNION {[1..n -> PassForms] : n \in 1..MaxPassEntries}

\* api_add_schedule run to its end on the state `before`
post_next(fleet, before, form, entry_id) ==
    recalculate_schedule(fleet,
        Append(before.entries, _create_schedule_entry(form, entry_id).entry),
        before.errors, before.auto_id)

\* what the globals hold after the forms were posted one by one to this fleet
RECURSIVE posted(_, _)
posted(fleet, forms) ==
    IF forms = <<>>
    THEN pass_result(<<>>, <<>>, <<>>, AUTO_ID_START)
    ELSE post_next(fleet, posted(fleet, SubSeq(forms, 1, Len(forms) - 1)),
                   forms[Len(forms)], ENTRY_ID_START + Len(forms) - 1)

\* api_add_schedule at line 611: the new entry stored on top of what the
\* earlier requests left, the pass about to run
pass_entered(fleet, before, form, entry_id) ==
    /\ FLEET = fleet
    /\ SCHEDULE_ENTRIES =
           Append(before.entries, _create_schedule_entry(form, entry_id).entry)
    /\ AUTO_SEGMENTS = before.auto_segments
    /\ SCHEDULE_ERRORS = before.errors
    /\ ENTRY_ID_COUNTER = entry_id + 1
    /\ AUTO_ID_COUNTER = before.auto_id
    /\ fresh = FALSE
    /\ rerun = FALSE
    /\ threaded = TRUE
    /\ pc = "start"
    /\ pending = <<>>
    /\ observed = NoSnapshot
    /\ call = NoCall
    /\ previous_errors = before.errors

InitPass ==
    \E fleet \in PassFleets, forms \in PassRegistries :
        pass_entered(fleet, posted(fleet, SubSeq(forms, 1, Len(forms) - 1)),
                     forms[Len(forms)], ENTRY_ID_START + Len(forms) - 1)

NextPass ==
    \/ PassClear
    \/ PassRefresh
    \/ PassOptimise
    \/ PassPublish

SpecPass == InitPass /\ [][NextPass]_vars

---------------------------------------------------------------------------
(* A posted registry edited: missions are updated and deleted, a pass after
   each request. The missions are local flights, which need no ferry, so that
   the AutoSegment id counter does not limit the number of passes *)

\* the forms posted and sent as updates
EditForms ==
    {PassMission("LDZA", "LDZA", "2025-01-01T00:00", "citation_mustang", "Tech", " "),
     PassMission("LDZA", "LDZA", "2025-01-01T08:00", "citation_mustang", "Tech", " "),
     PassMission("LDZA", "LDZA", "2025-01-01T00:00", "citation_cj", "Tech", " ")}

EditRegistries == UNION {[1..n -> EditForms] : n \in 1..MaxEditEntries}

InitEdit ==
    \E fleet \in PassFleets, forms \in EditRegistries :
        pass_entered(fleet, posted(fleet, SubSeq(forms, 1, Len(forms) - 1)),
                     forms[Len(forms)], ENTRY_ID_START + Len(forms) - 1)

NextEdit ==
    \/ \E entry_id \in ENTRY_ID_START..(ENTRY_ID_START + MaxEditEntries - 1),
          payload \in EditForms :
          api_update_schedule(entry_id, payload)
    \/ \E entry_id \in ENTRY_ID_START..(ENTRY_ID_START + MaxEditEntries - 1) :
          api_delete_schedule(entry_id)
    \/ PassClear
    \/ PassRefresh
    \/ PassOptimise
    \/ PassPublish

SpecEdit == InitEdit /\ [][NextEdit]_vars

---------------------------------------------------------------------------
(* One pass over missions that depart shortly after an aircraft has arrived:
   a flight to EGLL that lands at 02:30, and departures from EGLL and from
   EGKK (a 24-minute ferry away) between one and three hours later *)

BufferForms ==
    {PassMission("LDZA", "EGLL", "2025-01-01T00:00", "citation_mustang", "Tech", " "),
     PassMission("EGLL", "LDZA", "2025-01-01T04:00", "citation_mustang", "Tech", " "),
     PassMission("EGLL", "LDZA", "2025-01-01T05:00", "citation_mustang", "Tech", " "),
     PassMission("EGKK", "LDZA", "2025-01-01T04:36", "citation_mustang", "Tech", " "),
     PassMission("EGKK", "LDZA", "2025-01-01T05:00", "citation_mustang", "Tech", " ")}

BufferRegistries == UNION {[1..n -> BufferForms] : n \in 1..MaxBufferEntries}

InitBuffer ==
    \E fleet \in PassFleets, forms \in BufferRegistries :
        pass_entered(fleet, posted(fleet, SubSeq(forms, 1, Len(forms) - 1)),
                     forms[Len(forms)], ENTRY_ID_START + Len(forms) - 1)

SpecBuffer == InitBuffer /\ [][NextPass]_vars

---------------------------------------------------------------------------
(* compute_flight_stats called on its own, as the /calculate and /findplane
   routes and the pass call it *)

StatsDistances == 0..MaxStatsDistance

\* the cruise speeds of the aircraft table and two others
StatsSpeeds == {1, 100, 340, 377}

InitStats ==
    /\ FLEET = <<>>
    /\ SCHEDULE_ENTRIES = <<>>
    /\ AUTO_SEGMENTS = <<>>
    /\ SCHEDULE_ERRORS = <<>>
    /\ ENTRY_ID_COUNTER = ENTRY_ID_START
    /\ AUTO_ID_COUNTER = AUTO_ID_START
    /\ fresh = TRUE
    /\ rerun = FALSE
    /\ threaded = FALSE
    /\ pc = "idle"
    /\ pending = <<>>
    /\ observed = NoSnapshot
    /\ previous_errors = <<>>
    /\ \E distance_nm \in StatsDistances, speed_kts \in StatsSpeeds :
          call = [done |-> FALSE, distance_nm |-> distance_nm, speed_kts |-> speed_kts]

\* the call returns
ComputeFlightStats ==
    /\ ~call.done
    /\ call' = [done |-> TRUE, distance_nm |-> call.distance_nm,
                speed_kts |-> call.speed_kts,
                result |-> compute_flight_stats(call.distance_nm, call.speed_kts)]
    /\ UNCHANGED <<FLEET, SCHEDULE_ENTRIES, AUTO_SEGMENTS, SCHEDULE_ERRORS,
                   ENTRY_ID_COUNTER, AUTO_ID_COUNTER, fresh, rerun, threaded, pc,
                   pending, observed, previous_errors>>

NextStats == ComputeFlightStats

SpecStats == InitStats /\ [][NextStats]_vars

---------------------------------------------------------------------------
(* The state snapshot *)

\* the order of str on the registrations of the model
registration_rank(registration) ==
    CASE registration = "R1" -> 1
      [] registration = "R2" -> 2
      [] registration = "R3" -> 3
      [] OTHER -> 0

\* a.registration <= b.registration
registration_le(a, b) ==
    registration_rank(a.registration) <= registration_rank(b.registration)

\* aircraft put into a list sorted by registration, after those not above it
insert_aircraft(s, aircraft) ==
    insert_at(s, aircraft,
              Cardinality({i \in 1..Len(s) : registration_le(s[i], aircraft)}))

\* line 513: sorted(FLEET.values(), key=lambda a: a.registration)
RECURSIVE sorted_fleet(_)
sorted_fleet(fleet) ==
    IF fleet = <<>>
    THEN <<>>
    ELSE insert_aircraft(sorted_fleet(SubSeq(fleet, 1, Len(fleet) - 1)),
                         fleet[Len(fleet)])

\* (a.departure_time, a.auto_generated) <= (b.departure_time, b.auto_generated),
\* False before True
timeline_key_le(a, b) ==
    \/ a.departure_time < b.departure_time
    \/ /\ a.departure_time = b.departure_time
       /\ (~a.auto_generated \/ b.auto_generated)

\* e put into a sorted timeline, after the entries whose key is not above its
insert_timeline(s, e) ==
    insert_at(s, e, Cardinality({i \in 1..Len(s) : timeline_key_le(s[i], e)}))

\* line 504 left out: the timeline stays as line 503 concatenated it
unsorted_timeline(timeline) == timeline

\* line 504: timeline.sort(key=lambda e: (e.departure_time, e.auto_generated)),
\* stable
RECURSIVE sorted_timeline(_)
sorted_timeline(timeline) ==
    IF timeline = <<>>
    THEN <<>>
    ELSE insert_timeline(sorted_timeline(SubSeq(timeline, 1, Len(timeline) - 1)),
                         timeline[Len(timeline)])

\* _entry_to_json, the keys the properties read: entry_id is the number of a
\* mission and the string "auto-<number>" of an AutoSegment
_entry_to_json(entry) ==
    [entry_id |-> IF entry.auto_generated
                  THEN <<"auto-", entry.entry_id>>
                  ELSE <<entry.entry_id>>,
     auto_generated |-> entry.auto_generated,
     departure_airport |-> entry.departure_airport,
     arrival_airport |-> entry.arrival_airport,
     departure_time_value |-> entry.departure_time,
     assigned_registration |-> IF entry.assigned_registration = None
                               THEN "" ELSE entry.assigned_registration,
     editable |-> ~entry.auto_generated]

\* lines 506-514: the fleet listing
fleet_payload(fleet) ==
    [i \in 1..Len(fleet) |->
        [registration |-> fleet[i].registration, type_key |-> fleet[i].type_key,
         type_label |-> get_aircraft_info(fleet[i].type_key).label,
         max_pax |-> fleet[i].max_pax]]

\* lines 516-520, the timeline sorted
state_payload(fleet, timeline, errors) ==
    [fleet |-> fleet_payload(sorted_fleet(fleet)),
     schedule |-> [i \in 1..Len(timeline) |-> _entry_to_json(timeline[i])],
     errors |-> errors]

\* build_state_payload over the four globals
build_state_payload(fleet, entries, auto_segments, errors) ==
    state_payload(fleet, sorted_timeline(entries \o auto_segments), errors)

---------------------------------------------------------------------------
(* Properties *)

Entries == Range(SCHEDULE_ENTRIES)

Aircraft == Range(FLEET)

Assigned(e) == e.assigned_registration # None

\* the mission's airports and aircraft type are known
ValidRefs(e) ==
    /\ e.departure_airport \in airports_coordinates
    /\ e.arrival_airport \in airports_coordinates
    /\ KnownType(e.aircraft_type)

MetricsErrors == {ErrUnknownAirport, ErrUnsupportedType}

HasMetricsError == Range(SCHEDULE_ERRORS) \cap MetricsErrors # {}

\* C1: every mission with an assigned registration is assigned to an aircraft
\* of the fleet, of the mission's type, with max_pax at least the passengers
\* the mission requires.
AssignedAircraftFits ==
    \A e \in Entries :
        Assigned(e) =>
            \E a \in Aircraft :
                /\ a.registration = e.assigned_registration
                /\ a.type_key = e.aircraft_type
                /\ a.max_pax >= _mission_required_pax(e.mission_type)

\* a "2 pax" mission is assigned while the fleet also holds a one-seat aircraft
\* of the type and a mission is stored for the other type
AssignedAircraftFitsWitness ==
    /\ \E e \in Entries : Assigned(e) /\ e.mission_type = "2 pax"
    /\ \E a \in Aircraft : a.type_key = "citation_mustang" /\ a.max_pax = 1
    /\ Len(FLEET) = 2

\* b is the mission the aircraft of a flies next after a
NextOnAircraft(a, b) ==
    /\ Assigned(a)
    /\ b.assigned_registration = a.assigned_registration
    /\ a.entry_id # b.entry_id
    /\ a.departure_time <= b.departure_time
    /\ ~\E c \in Entries :
           /\ c.assigned_registration = a.assigned_registration
           /\ c.entry_id \notin {a.entry_id, b.entry_id}
           /\ a.departure_time <= c.departure_time
           /\ c.departure_time <= b.departure_time

HasFerry(registration, from, to) ==
    \E seg \in Range(AUTO_SEGMENTS) :
        /\ seg.assigned_registration = registration
        /\ seg.departure_airport = from
        /\ seg.arrival_airport = to

\* C2: consecutive missions of one aircraft are a ground buffer apart, and a
\* ferry leg joins them whenever the first arrives somewhere else than the
\* second departs from, in every state the API can leave.
BufferAndFerryBetweenMissions ==
    \A a \in Entries, b \in Entries :
        NextOnAircraft(a, b) =>
            /\ b.departure_time >= a.arrival_time + GROUND_BUFFER
            /\ a.arrival_airport # b.departure_airport =>
                  HasFerry(a.assigned_registration, a.arrival_airport,
                           b.departure_airport)

\* C3: after a pass over a registry holding a mission with an unknown airport
\* or aircraft type, the diagnostics hold a metrics error, no mission is
\* assigned and there is no AutoSegment.
MetricsErrorAbortsPass ==
    (fresh /\ \E e \in Entries : ~ValidRefs(e)) =>
        /\ HasMetricsError
        /\ \A e \in Entries : ~Assigned(e)
        /\ AUTO_SEGMENTS = <<>>

\* a pass ran over an invalid mission next to a valid one whose type has an
\* aircraft that fits it
MetricsErrorAbortsPassWitness ==
    /\ fresh
    /\ \E e \in Entries : ~ValidRefs(e)
    /\ \E e \in Entries :
          /\ ValidRefs(e)
          /\ e.requested_registration = None
          /\ \E a \in Aircraft :
                /\ a.type_key = e.aircraft_type
                /\ a.max_pax >= _mission_required_pax(e.mission_type)

\* the payload names an airport or an aircraft type the tables do not know
NamesUnknown(payload) ==
    \/ payload.departure_airport # Absent
         /\ Upper(payload.departure_airport) \notin airports_coordinates
    \/ payload.arrival_airport # Absent
         /\ Upper(payload.arrival_airport) \notin airports_coordinates
    \/ payload.aircraft_type # Absent /\ ~KnownType(payload.aircraft_type)

\* C4: a create or update request naming an unknown airport or aircraft type
\* leaves the missions, the AutoSegments and the diagnostics as they were.
UnknownReferenceRejected ==
    [][((\E payload \in CreatePayloads :
            NamesUnknown(payload) /\ api_add_schedule(payload))
        \/ (\E entry_id \in EntryIds, payload \in UpdatePayloads :
            NamesUnknown(payload) /\ api_update_schedule(entry_id, payload)))
       => UNCHANGED <<SCHEDULE_ENTRIES, AUTO_SEGMENTS, SCHEDULE_ERRORS>>]_vars

\* api_update_schedule answers 404 or 400
update_rejects(entry_id, payload) ==
    \/ ~HasEntry(SCHEDULE_ENTRIES, entry_id)
    \/ _update_entry_from_payload(EntryOf(SCHEDULE_ENTRIES, entry_id), payload).raised

\* C5: a request answered with an error leaves the fleet, every field of
\* every mission, the AutoSegments and the diagnostics as they were.
RejectedRequestChangesNothing ==
    [][((\E payload \in AircraftPayloads :
            add_aircraft_rejects(payload) /\ api_add_aircraft(payload))
        \/ (\E payload \in CreatePayloads :
            _create_schedule_entry(payload, ENTRY_ID_COUNTER).raised
            /\ api_add_schedule(payload))
        \/ (\E entry_id \in EntryIds, payload \in UpdatePayloads :
            update_rejects(entry_id, payload)
            /\ api_update_schedule(entry_id, payload)))
       => UNCHANGED <<FLEET, SCHEDULE_ENTRIES, AUTO_SEGMENTS, SCHEDULE_ERRORS>>]_vars

\* a ferry leg without its identifier
Leg(seg) ==
    [departure_airport |-> seg.departure_airport,
     arrival_airport |-> seg.arrival_airport,
     departure_time |-> seg.departure_time,
     arrival_time |-> seg.arrival_time,
     aircraft_type |-> seg.aircraft_type,
     assigned_registration |-> seg.assigned_registration,
     flight_time_hours |-> seg.flight_time_hours]

Legs(segs) == [i \in 1..Len(segs) |-> Leg(segs[i])]

\* the step leaves the registries as a pass left them
RegistriesUnchanged ==
    /\ fresh
    /\ fresh'
    /\ FLEET' = FLEET
    /\ UserFields(SCHEDULE_ENTRIES') = UserFields(SCHEDULE_ENTRIES)

\* C6 as stated: a second pass over unchanged registries leaves the same
\* assignments, the same AutoSegments with the same identifiers, and the same
\* diagnostics.
PassIdempotentWithIds ==
    [][RegistriesUnchanged =>
          /\ SCHEDULE_ENTRIES' = SCHEDULE_ENTRIES
          /\ AUTO_SEGMENTS' = AUTO_SEGMENTS
          /\ SCHEDULE_ERRORS' = SCHEDULE_ERRORS]_vars

\* C6 amended: a second pass over unchanged registries leaves the same
\* assignments, the same ferry legs (airports, times, registrations) and the
\* same diagnostics; the legs' identifiers are drawn anew from the counter.
PassIdempotentUpToIds ==
    [][RegistriesUnchanged =>
          /\ SCHEDULE_ENTRIES' = SCHEDULE_ENTRIES
          /\ Legs(AUTO_SEGMENTS') = Legs(AUTO_SEGMENTS)
          /\ SCHEDULE_ERRORS' = SCHEDULE_ERRORS
          /\ \A i \in 1..Len(AUTO_SEGMENTS) :
                AUTO_SEGMENTS'[i].entry_id >= AUTO_SEGMENTS[i].entry_id]_vars

\* a pass was run again over unchanged registries and produced a ferry leg
\* whose identifier is not the one of the pass before
PassIdempotentWitness ==
    /\ fresh
    /\ rerun
    /\ AUTO_SEGMENTS # <<>>
    /\ AUTO_SEGMENTS[1].entry_id > AUTO_ID_START

\* the estimator's result for the mission's airports and type
ExpectedFlightTime(e) ==
    compute_flight_stats(_distance_between(e.departure_airport, e.arrival_airport),
                         get_aircraft_info(e.aircraft_type).speed).total_hours

\* C8: every stored mission with known airports and type has flight_time_hours
\* equal to the estimator's result for its current fields and arrival_time =
\* departure_time + flight_time_hours.
DerivedFieldsCurrent ==
    \A e \in Entries :
        ValidRefs(e) =>
            /\ e.flight_time_hours = ExpectedFlightTime(e)
            /\ e.arrival_time = e.departure_time + e.flight_time_hours

\* C9: after a pass without a metrics error, a type with a mission and no
\* aircraft has its NoAircraftOfType diagnostic and all its missions unassigned.
NoAircraftOfTypeReported ==
    (fresh /\ ~HasMetricsError) =>
        \A k \in TypeKeys :
            ((\E e \in Entries : e.aircraft_type = k)
              /\ ~\E a \in Aircraft : a.type_key = k)
            => /\ ErrNoAircraftOfType(get_aircraft_info(k)) \in Range(SCHEDULE_ERRORS)
               /\ \A e \in Entries : e.aircraft_type = k => ~Assigned(e)

\* a type has a mission and no aircraft while the other type's mission is assigned
NoAircraftOfTypeReportedWitness ==
    /\ fresh
    /\ ~HasMetricsError
    /\ \E e \in Entries :
          /\ ~\E a \in Aircraft : a.type_key = e.aircraft_type
          /\ \E f \in Entries : f.aircraft_type # e.aircraft_type /\ Assigned(f)

\* the registry without its i-th mission
WithoutEntry(entries, i) ==
    SubSeq(entries, 1, i - 1) \o SubSeq(entries, i + 1, Len(entries))

\* a pass over the registry without its i-th mission leaves the other missions
\* and the AutoSegments as they are
SameWithout(i, without) ==
    /\ without.entries = WithoutEntry(SCHEDULE_ENTRIES, i)
    /\ without.auto_segments = AUTO_SEGMENTS

SnapshotIs(snapshot, r) ==
    /\ snapshot.entries = r.entries
    /\ Legs(snapshot.auto_segments) = Legs(r.auto_segments)
    /\ snapshot.errors = r.errors

\* what the reader saw is what a completed pass over the registries it saw
\* produces
SnapshotOfCompletedPass(snapshot) ==
    SnapshotIs(snapshot, recalculate_schedule(snapshot.fleet, snapshot.entries,
                                              <<>>, AUTO_ID_START))

\* the pass has made its first write (line 461) and not yet its last (line 471)
InsidePass(at) == at \in {"refresh", "optimise", "publish"}

\* C7: with requests served concurrently, a GET /api/state that runs while a
\* request is inside its pass reads the output of a completed pass, never a
\* state the pass has only partly rebuilt.
ReaderNeverSeesPartialPass ==
    (observed.taken /\ InsidePass(observed.during)) => SnapshotOfCompletedPass(observed)

---------------------------------------------------------------------------
(* The iterations of a pass *)

\* _optimise_assignments has returned: its writes are in the registries, and
\* the list it returned is in pending until line 471 stores it
PassDone == pc = "publish" \/ (pc = "idle" /\ fresh /\ ~HasMetricsError)

\* the AutoSegments of the pass
Segments == IF pc = "publish" THEN pending ELSE AUTO_SEGMENTS

\* the iterations of the pass that left this state
PassLog == _optimise_assignments(FLEET, SCHEDULE_ENTRIES, <<>>, AUTO_ID_START).log

Steps == Range(PassLog)

\* the stored mission of an iteration
Stored(step) == EntryOf(SCHEDULE_ENTRIES, step.entry.entry_id)

\* the mission is stored with the registration the iteration chose, or with
\* none if it chose none
StoredAsChosen(step) ==
    Stored(step).assigned_registration =
        (IF step.chosen THEN step.state.registration ELSE None)

\* the aircraft a mission may be given: those of its type's pool with seats
\* enough, and only the requested one if the mission requests one
StepCandidates(step) ==
    {state \in Range(step.states) :
        /\ state.max_pax >= _mission_required_pax(step.entry.mission_type)
        /\ \/ step.entry.requested_registration \in {None, ""}
           \/ state.registration = step.entry.requested_registration}

\* the aircraft has to be ferried to the mission's departure airport
NeedsFerry(state, entry) == state.location \notin {None, entry.departure_airport}

\* hours of the ferry from where the aircraft stands to the departure airport
FerryHours(state, entry) ==
    IF NeedsFerry(state, entry)
    THEN compute_flight_stats(
             _distance_between(state.location, entry.departure_airport),
             get_aircraft_info(entry.aircraft_type).speed).total_hours
    ELSE 0

\* the aircraft can be at the departure airport a ground buffer before the
\* mission departs
FeasibleFor(state, entry) ==
    state.available_from + FerryHours(state, entry)
        <= entry.departure_time - GROUND_BUFFER

FeasibleCandidates(step) ==
    {state \in StepCandidates(step) : FeasibleFor(state, step.entry)}

\* the AutoSegments that bring the mission's aircraft to its departure airport
\* a ground buffer before it departs
FerriesFor(e) ==
    {i \in 1..Len(Segments) :
        /\ Assigned(e)
        /\ Segments[i].auto_generated
        /\ Segments[i].assigned_registration = e.assigned_registration
        /\ Segments[i].arrival_airport = e.departure_airport
        /\ Segments[i].arrival_time = e.departure_time - GROUND_BUFFER}

\* the feasible candidates of the iteration are p, standing at the departure
\* airport, and q, standing at another airport
PositionedAndFerried(step, p, q) ==
    /\ FeasibleCandidates(step) = {p, q}
    /\ p.location = step.entry.departure_airport
    /\ NeedsFerry(q, step.entry)

\* the iteration gave the mission to p, without a ferry
ChosenWithoutFerry(step, p) ==
    /\ step.chosen
    /\ step.state.registration = p.registration
    /\ StoredAsChosen(step)
    /\ FerriesFor(Stored(step)) = {}

\* C11 as stated: a mission whose two feasible candidates are an aircraft at
\* its departure airport and an aircraft that needs a ferry is given to the
\* first, and no AutoSegment is produced for it.
PositionedAircraftChosen ==
    PassDone =>
        \A step \in Steps : \A p, q \in StepCandidates(step) :
            PositionedAndFerried(step, p, q) => ChosenWithoutFerry(step, p)

\* q's ferry would bring its accumulated ferry hours above p's
Cheaper(step, p, q) ==
    p.accumulated_ferry < q.accumulated_ferry + FerryHours(q, step.entry)

\* C11: a mission whose two feasible candidates are an aircraft at its
\* departure airport and an aircraft that needs a ferry is given to the first,
\* without an AutoSegment, whenever the first's accumulated ferry hours are
\* less than the second's accumulated ferry hours plus its ferry cost.
PositionedAircraftChosenWhenCheaper ==
    PassDone =>
        \A step \in Steps : \A p, q \in StepCandidates(step) :
            (PositionedAndFerried(step, p, q) /\ Cheaper(step, p, q))
                => ChosenWithoutFerry(step, p)

\* a pass gave a mission to the aircraft at its departure airport while another
\* could have been ferried in
PositionedAircraftChosenWitness ==
    /\ PassDone
    /\ \E step \in Steps : \E p, q \in StepCandidates(step) :
          /\ PositionedAndFerried(step, p, q)
          /\ Cheaper(step, p, q)
          /\ ChosenWithoutFerry(step, p)

\* the AutoSegments flown by the iteration's aircraft between the time it was
\* free and the mission's departure
CommitmentFerries(step) ==
    {i \in 1..Len(Segments) :
        /\ Segments[i].auto_generated
        /\ Segments[i].assigned_registration = step.state.registration
        /\ Segments[i].departure_time >= step.state.available_from
        /\ Segments[i].arrival_time <= step.entry.departure_time}

\* seg flies the aircraft from where it stood to the mission's departure
\* airport and lands a ground buffer before the mission departs
LateFerry(seg, step, hours) ==
    /\ seg.departure_airport = step.state.location
    /\ seg.arrival_airport = step.entry.departure_airport
    /\ seg.requested_registration = step.state.registration
    /\ seg.departure_time = step.entry.departure_time - GROUND_BUFFER - hours
    /\ seg.arrival_time = seg.departure_time + hours
    /\ seg.departure_time >= step.state.available_from

\* the iteration committed an aircraft that stood at another airport
CommittedWithFerry(step) == step.chosen /\ NeedsFerry(step.state, step.entry)

\* C12: when an aircraft located at X is committed to a mission departing from
\* Y # X, exactly one AutoSegment X->Y is produced for the commitment, with the
\* chosen registration, departing at latest_finish - reposition_duration
\* (latest_finish = departure_time - ground buffer), arriving a
\* reposition_duration later, and never starting before available_from.
FerryAsLateAsPossible ==
    PassDone =>
        \A step \in Steps :
            CommittedWithFerry(step) =>
                /\ StoredAsChosen(step)
                /\ \E i \in 1..Len(Segments) :
                      /\ CommitmentFerries(step) = {i}
                      /\ LateFerry(Segments[i], step, FerryHours(step.state, step.entry))

\* an aircraft was ferried to a mission although it was free long before the
\* ferry had to start
FerryAsLateAsPossibleWitness ==
    /\ PassDone
    /\ \E step \in Steps :
          /\ CommittedWithFerry(step)
          /\ step.state.available_from + FerryHours(step.state, step.entry)
                < step.entry.departure_time - GROUND_BUFFER
          /\ CommitmentFerries(step) # {}

\* the snapshot a request served in this state returns
Snapshot == build_state_payload(FLEET, SCHEDULE_ENTRIES, AUTO_SEGMENTS, SCHEDULE_ERRORS)

\* the positions of the schedule that show this identifier
ShownAt(schedule, json_id) == {i \in 1..Len(schedule) : schedule[i].entry_id = json_id}

\* every stored mission and every stored AutoSegment is shown once, and
\* nothing else is
ShowsEachOnce(schedule) ==
    /\ Len(schedule) = Len(SCHEDULE_ENTRIES) + Len(AUTO_SEGMENTS)
    /\ \A e \in Entries : Cardinality(ShownAt(schedule, <<e.entry_id>>)) = 1
    /\ \A seg \in Range(AUTO_SEGMENTS) :
          Cardinality(ShownAt(schedule, <<"auto-", seg.entry_id>>)) = 1

\* ascending (departure_time, isAutoGenerated): at equal departure times no
\* ferry leg comes before a mission
TimelineSorted(schedule) ==
    \A i \in 1..Len(schedule), j \in 1..Len(schedule) :
        i < j =>
            /\ schedule[i].departure_time_value <= schedule[j].departure_time_value
            /\ (schedule[i].departure_time_value = schedule[j].departure_time_value
                   => ~(schedule[i].auto_generated /\ ~schedule[j].auto_generated))

\* the listing shows the aircraft of the fleet in ascending registration
FleetSorted(listing) ==
    /\ {listing[i].registration : i \in 1..Len(listing)}
           = {a.registration : a \in Aircraft}
    /\ \A i \in 1..Len(listing), j \in 1..Len(listing) :
          i < j => registration_rank(listing[i].registration)
                       < registration_rank(listing[j].registration)

\* C13: the schedule of every state snapshot holds each stored mission and each
\* AutoSegment exactly once, sorted by (departure_time, isAutoGenerated)
\* ascending, a mission before a ferry leg at equal departure times; the fleet
\* listing is sorted by ascending registration.
SnapshotSortedAndComplete ==
    /\ ShowsEachOnce(Snapshot.schedule)
    /\ TimelineSorted(Snapshot.schedule)
    /\ FleetSorted(Snapshot.fleet)

\* a ferry leg departs at the minute a mission does, a later mission is stored
\* before an earlier one, and the fleet was filled in descending registration
SnapshotSortedAndCompleteWitness ==
    /\ pc = "idle"
    /\ \E seg \in Range(AUTO_SEGMENTS), e \in Entries :
          seg.departure_time = e.departure_time
    /\ \E i \in 1..Len(SCHEDULE_ENTRIES), j \in 1..Len(SCHEDULE_ENTRIES) :
          i < j /\ SCHEDULE_ENTRIES[i].departure_time > SCHEDULE_ENTRIES[j].departure_time
    /\ Len(FLEET) = 2
    /\ FLEET[1].registration = "R2"

---------------------------------------------------------------------------
(* The flight-time estimate *)

\* x is the whole number of thousandths in num / den (den > 0)
FloorOfRatio(x, num, den) == den * x <= num /\ num < den * (x + 1)

\* the padding the estimate adds: 0.333 h above a base time of 0.4 h, 0.20 h up
\* to and at it
SpecifiedPadding(distance_nm, speed_kts) ==
    IF 5 * distance_nm > 2 * speed_kts THEN 333 ELSE 200

\* total is d/s plus the padding, in thousandths of an hour
TotalAsSpecified(total, distance_nm, speed_kts, padding) ==
    FloorOfRatio(total - padding, 1000 * distance_nm, speed_kts)

\* hours = floor(total_hours), minutes = floor((total_hours - hours) * 60)
HoursAndMinutesOf(total, hours, minutes) ==
    /\ FloorOfRatio(hours, total, 1000)
    /\ FloorOfRatio(minutes, (total - 1000 * hours) * 60, 1000)

\* C14: for every distance d >= 0 and speed s > 0, compute_flight_stats(d, s)
\* has total_hours = d/s + 0.333 when d/s > 0.4 and d/s + 0.20 otherwise (a
\* base time of exactly 0.4 gets 0.20), hours = floor(total_hours) and
\* minutes = floor((total_hours - hours) * 60).
FlightStatsAsSpecified ==
    call.done =>
        /\ TotalAsSpecified(call.result.total_hours, call.distance_nm, call.speed_kts,
                            SpecifiedPadding(call.distance_nm, call.speed_kts))
        /\ HoursAndMinutesOf(call.result.total_hours, call.result.hours,
                             call.result.minutes)

\* the estimate of a leg whose base time is exactly 0.4 h: 36 minutes
FlightStatsAsSpecifiedWitness ==
    /\ call.done
    /\ call.distance_nm = 136
    /\ call.speed_kts = 340
    /\ call.result = [total_hours |-> 600, hours |-> 0, minutes |-> 36]

---------------------------------------------------------------------------
(* The choice among the candidates *)

\* what the selection minimises: the ferry hours the aircraft has accumulated in
\* this pass plus those of the ferry to this mission
Metric(state, entry) == state.accumulated_ferry + FerryHours(state, entry)

\* C15: among feasible candidates with the same accumulated_ferry + ferry cost
\* the one with the smallest registration is chosen, whatever the order in
\* which the aircraft were added to the fleet.
TieBrokenByRegistration ==
    PassDone =>
        \A step \in Steps :
            step.chosen =>
                \A other \in FeasibleCandidates(step) :
                    Metric(other, step.entry) = Metric(step.state, step.entry)
                        => registration_rank(step.state.registration)
                               <= registration_rank(other.registration)

\* the iteration chose a feasible candidate, none of the others being cheaper
ChosenIsMinimal(step) ==
    /\ step.state \in FeasibleCandidates(step)
    /\ \A other \in FeasibleCandidates(step) :
          Metric(step.state, step.entry) <= Metric(other, step.entry)

\* the mission of the iteration is unassigned and reported as infeasible
ReportedInfeasible(step) ==
    /\ ~Assigned(Stored(step))
    /\ ErrNoFeasible(step.entry) \in Range(SCHEDULE_ERRORS)

\* C16: the aircraft a pass assigns to a mission is a feasible candidate whose
\* accumulated_ferry + ferry cost, as they were when the mission's turn came,
\* is minimal among the mission's feasible candidates; a mission is left
\* unassigned with the no-feasible-assignment error only if none is feasible.
MinimalFerryChosen ==
    PassDone =>
        \A step \in Steps :
            /\ StoredAsChosen(step)
            /\ step.chosen => ChosenIsMinimal(step)
            /\ ReportedInfeasible(step) => FeasibleCandidates(step) = {}

\* one pass chose the cheaper of two feasible candidates for one mission and
\* reported another, which had candidates but none feasible, as infeasible
MinimalFerryChosenWitness ==
    /\ PassDone
    /\ \E step \in Steps : \E other \in FeasibleCandidates(step) :
          /\ step.chosen
          /\ Metric(step.state, step.entry) < Metric(other, step.entry)
    /\ \E step \in Steps :
          /\ ReportedInfeasible(step)
          /\ StepCandidates(step) # {}

---------------------------------------------------------------------------
(* The order of commitment *)

\* a's turn comes before b's: it departs earlier, or at the same time and was
\* created earlier
TurnBefore(a, b) ==
    \/ a.departure_time < b.departure_time
    \/ a.departure_time = b.departure_time /\ a.entry_id < b.entry_id

\* two missions of one type departing at the same time, a created first
SameTurnTime(a, b) ==
    /\ a.aircraft_type = b.aircraft_type
    /\ a.departure_time = b.departure_time
    /\ a.entry_id < b.entry_id

\* both missions could be flown by the single aircraft of their type's pool,
\* which is free for the first of them
CompeteForOne(first, second) ==
    /\ Len(first.states) = 1
    /\ FeasibleCandidates(first) # {}
    /\ StepCandidates(second) # {}

\* C17: within a type, missions are committed in ascending departure time and,
\* at equal departure times, in creation order (ascending id), also after
\* updates and deletions; of two same-type missions departing at the same time
\* that compete for a single available aircraft the earlier-created is assigned.
CommittedInCreationOrder ==
    PassDone =>
        /\ \A i \in 1..Len(PassLog), j \in 1..Len(PassLog) :
              (i < j /\ PassLog[i].entry.aircraft_type = PassLog[j].entry.aircraft_type)
                  => TurnBefore(PassLog[i].entry, PassLog[j].entry)
        /\ \A first \in Steps, second \in Steps :
              (SameTurnTime(first.entry, second.entry) /\ CompeteForOne(first, second))
                  => /\ Assigned(Stored(first))
                     /\ ~Assigned(Stored(second))

\* the first mission posted has been deleted; the second and the third depart
\* at the same time and competed for the one aircraft of their type
CommittedInCreationOrderWitness ==
    /\ PassDone
    /\ Len(SCHEDULE_ENTRIES) = 2
    /\ SCHEDULE_ENTRIES[1].entry_id = ENTRY_ID_START + 1
    /\ \E first \in Steps, second \in Steps :
          /\ SameTurnTime(first.entry, second.entry)
          /\ CompeteForOne(first, second)
          /\ Assigned(Stored(first))

---------------------------------------------------------------------------
(* Requested registrations *)

\* the mission asks for one aircraft
Requests(e) == e.requested_registration \notin {None, ""}

\* a pass has run to its end, or as far as line 471
AfterPass == pc = "publish" \/ (pc = "idle" /\ fresh)

\* the diagnostics that name the mission's type
TypeDiagnostics(e, info) ==
    {ErrRequestedUnavailable(e.requested_registration, info),
     ErrNoAircraftOfType(info)}

\* the diagnostics a pass can leave for a mission it does not assign
DiagnosticsFor(e) ==
    MetricsErrors
    \cup {ErrNoFeasible(e),
          ErrInsufficientSeats(e.requested_registration,
                               _mission_required_pax(e.mission_type))}
    \cup (IF KnownType(e.aircraft_type)
          THEN TypeDiagnostics(e, get_aircraft_info(e.aircraft_type))
          ELSE {})

\* C18: after any pass a mission that carries a requested registration is
\* assigned to exactly that registration, or is unassigned and a diagnostic
\* says why; it is never given another aircraft.
RequestedRegistrationOnly ==
    AfterPass =>
        \A e \in Entries :
            Requests(e) =>
                \/ e.assigned_registration = e.requested_registration
                \/ /\ ~Assigned(e)
                   /\ DiagnosticsFor(e) \cap Range(SCHEDULE_ERRORS) # {}

\* the aircraft could carry the mission and no mission was given to it
IdleAndFit(a, e) ==
    /\ a.type_key = e.aircraft_type
    /\ a.max_pax >= _mission_required_pax(e.mission_type)
    /\ a.registration # e.requested_registration
    /\ \A other \in Entries : other.assigned_registration # a.registration

\* the requested aircraft was taken at the mission's time, the mission was
\* reported infeasible, and another aircraft of the type stayed idle
RequestedRegistrationOnlyWitness ==
    /\ PassDone
    /\ \E e \in Entries : \E a \in Aircraft :
          /\ Requests(e)
          /\ ~Assigned(e)
          /\ ErrNoFeasible(e) \in Range(SCHEDULE_ERRORS)
          /\ IdleAndFit(a, e)

---------------------------------------------------------------------------
(* AutoSegments and commitments *)

\* the iterations of the pass that committed an aircraft standing elsewhere
FerryCommitments == {i \in 1..Len(PassLog) : CommittedWithFerry(PassLog[i])}

\* the state the iteration left its aircraft in
AfterState(step) ==
    CHOOSE state \in Range(step.after) : state.registration = step.state.registration

\* the aircraft was committed from an unknown location or from the departure
\* airport: no AutoSegment, accumulated_ferry as before
CommittedInPlace(step) ==
    /\ step.window.hours = 0
    /\ CommitmentFerries(step) = {}
    /\ AfterState(step).accumulated_ferry = step.state.accumulated_ferry

\* C19: a pass returns an AutoSegment if and only if one of its commitments had
\* ferry cost > 0, which is when the chosen aircraft had a known location other
\* than the departure airport; an aircraft at an unknown location or at the
\* departure airport is committed with no AutoSegment and its accumulated_ferry
\* unchanged; no AutoSegment is produced for a mission left unassigned.
AutoSegmentIffFerry ==
    PassDone =>
        /\ Len(Segments) = Cardinality(FerryCommitments)
        /\ \A i \in 1..Len(Segments) :
              \E step \in Steps : CommittedWithFerry(step) /\ i \in CommitmentFerries(step)
        /\ \A step \in Steps :
              step.chosen =>
                  /\ step.window.hours > 0 <=> NeedsFerry(step.state, step.entry)
                  /\ ~NeedsFerry(step.state, step.entry) => CommittedInPlace(step)

\* one pass committed an aircraft from an unknown location, ferried it to its
\* next mission, committed it again where it stood, and left a mission unassigned
AutoSegmentIffFerryWitness ==
    /\ PassDone
    /\ Len(Segments) = 1
    /\ \E step \in Steps : step.chosen /\ step.state.location = None
    /\ \E step \in Steps : CommittedWithFerry(step)
    /\ \E step \in Steps : step.chosen /\ step.state.location = step.entry.departure_airport
    /\ \E step \in Steps : ~step.chosen

---------------------------------------------------------------------------
(* Independence of the types *)

\* the aircraft, the missions and the AutoSegments of one type
TypeFleet(type_key) == SelectSeq(FLEET, LAMBDA a : a.type_key = type_key)

TypeEntries(type_key) ==
    SelectSeq(SCHEDULE_ENTRIES, LAMBDA e : e.aircraft_type = type_key)

TypeSegments(type_key) == SelectSeq(Segments, LAMBDA seg : seg.aircraft_type = type_key)

\* the registration each mission is assigned, mission by mission
AssignedRegistrations(entries) ==
    [i \in 1..Len(entries) |-> <<entries[i].entry_id, entries[i].assigned_registration>>]

\* a pass over the aircraft and the missions of this type only
TypeAlone(type_key) ==
    _optimise_assignments(TypeFleet(type_key), TypeEntries(type_key), <<>>, AUTO_ID_START)

\* C20: assignment runs independently per aircraft type. After a pass without a
\* metrics error the assigned registration of every mission of a type, and the
\* airports, times and registrations of the AutoSegments serving them, are
\* those of a pass over that type's aircraft and missions alone; so adding,
\* updating or deleting a mission of another type, or adding or removing an
\* aircraft of another type, leaves them unchanged.
TypesAssignedIndependently ==
    PassDone =>
        \A type_key \in TypeKeys :
            /\ AssignedRegistrations(TypeAlone(type_key).entries)
                   = AssignedRegistrations(TypeEntries(type_key))
            /\ Legs(TypeAlone(type_key).auto_segments) = Legs(TypeSegments(type_key))

\* missions of two types were assigned in one pass, one type's aircraft being
\* ferried, the other type's mission stored first
TypesAssignedIndependentlyWitness ==
    /\ PassDone
    /\ \E e \in Entries : e.aircraft_type = "citation_cj" /\ Assigned(e)
    /\ \E e \in Entries : e.aircraft_type = "citation_mustang" /\ Assigned(e)
    /\ TypeSegments("citation_mustang") # <<>>
    /\ SCHEDULE_ENTRIES[1].aircraft_type = "citation_cj"
    /\ FLEET[1].type_key = "citation_cj"

---------------------------------------------------------------------------
(* Nothing carried over between passes *)

\* a pass over the current fleet and missions that starts from an empty
\* diagnostics list
FreshPass == recalculate_schedule(FLEET, SCHEDULE_ENTRIES, <<>>, AUTO_ID_START)

\* C21: diagnostics and AutoSegments carry nothing over between passes. After
\* every recomputation the diagnostics list holds exactly the errors that pass
\* produced for the current fleet and missions, and the AutoSegments are those
\* it built: a diagnostic whose cause a later request removed is gone, and a
\* repeated pass duplicates none.
DiagnosticsRebuiltEachPass ==
    fresh =>
        /\ SCHEDULE_ERRORS = FreshPass.errors
        /\ Legs(AUTO_SEGMENTS) = Legs(FreshPass.auto_segments)

\* the pass before reported that the fleet had no aircraft of a mission's type;
\* an aircraft was added, the mission is assigned, and the list is empty
DiagnosticsRebuiltEachPassWitness ==
    /\ fresh
    /\ pc = "idle"
    /\ SCHEDULE_ERRORS = <<>>
    /\ \E e \in Entries :
          /\ Assigned(e)
          /\ ErrNoAircraftOfType(get_aircraft_info(e.aircraft_type))
                 \in Range(previous_errors)

---------------------------------------------------------------------------
(* The ground buffer between two missions of one aircraft *)

\* hours of the ferry between the two airports for an aircraft of this type, 0
\* if they are the same airport
FerryBetween(from, to, type_key) ==
    IF from = to
    THEN 0
    ELSE compute_flight_stats(_distance_between(from, to),
                              get_aircraft_info(type_key).speed).total_hours

\* a and b are flown by the same aircraft, a first
SameAircraftInOrder(a, b) ==
    /\ Assigned(a)
    /\ b.assigned_registration = a.assigned_registration
    /\ a.entry_id # b.entry_id
    /\ a.departure_time <= b.departure_time

\* C22: the ground buffer is applied twice between two commitments of one
\* aircraft. Whenever a pass assigns two missions to one aircraft, the later
\* departs at least 2 x ground buffer (2 hours) after the earlier arrives, plus
\* the reposition duration when the aircraft has to be ferried from the one to
\* the other; a mission departing less than 2 hours after the aircraft's
\* previous arrival is not assigned to it, even at the same airport.
DoubleGroundBuffer ==
    PassDone =>
        \A a \in Entries, b \in Entries :
            /\ SameAircraftInOrder(a, b)
                  => b.departure_time >= a.arrival_time + 2 * GROUND_BUFFER
            /\ NextOnAircraft(a, b)
                  => b.departure_time >=
                         a.arrival_time + 2 * GROUND_BUFFER
                         + FerryBetween(a.arrival_airport, b.departure_airport,
                                        b.aircraft_type)

\* c departs from the airport where a's aircraft stands, more than one ground
\* buffer but less than two after a arrived, and was reported infeasible
RefusedInsideSecondBuffer(a, c) ==
    /\ Assigned(a)
    /\ ~Assigned(c)
    /\ c.departure_airport = a.arrival_airport
    /\ c.departure_time >= a.arrival_time + GROUND_BUFFER
    /\ c.departure_time < a.arrival_time + 2 * GROUND_BUFFER
    /\ ErrNoFeasible(c) \in Range(SCHEDULE_ERRORS)

\* the only aircraft flew a mission, was refused a departure from the same
\* airport an hour and a half after landing, and was ferried to a mission that
\* leaves two and a half hours after landing
DoubleGroundBufferWitness ==
    /\ PassDone
    /\ Len(FLEET) = 1
    /\ \E a \in Entries, c \in Entries : RefusedInsideSecondBuffer(a, c)
    /\ \E a \in Entries, b \in Entries :
          /\ NextOnAircraft(a, b)
          /\ a.arrival_airport # b.departure_airport
          /\ b.departure_time < a.arrival_time + 3 * GROUND_BUFFER

---------------------------------------------------------------------------
(* Unassigned missions and the diagnostics *)

\* the rows of the snapshot's schedule that carry no registration
UnassignedRows(schedule) ==
    {i \in DOMAIN schedule : schedule[i].assigned_registration = ""}

\* C23: every unassigned mission is accounted for by a diagnostic. After any
\* successful mutation, an empty diagnostics list means that every stored
\* mission has an assigned registration; the same read off the snapshot: one
\* that shows a mission without a registration has a non-empty diagnostics list.
UnassignedAccountedFor ==
    /\ SCHEDULE_ERRORS = <<>> => \A e \in Entries : Assigned(e)
    /\ UnassignedRows(Snapshot.schedule) # {} => Snapshot.errors # <<>>

\* a second mission was posted and both are assigned with no diagnostic, after
\* a pass that had left the first one unassigned
UnassignedAccountedForWitness ==
    /\ fresh
    /\ SCHEDULE_ERRORS = <<>>
    /\ Cardinality(Entries) = MaxEntries
    /\ \A e \in Entries : Assigned(e)
    /\ previous_errors # <<>>

====
